---- MODULE Spec2Model ----
(***************************************************************************)
(* Model of the merge/dedup engine (app/routes/merge.py), of the store it  *)
(* writes (app/services/database.py) and of the resample queries           *)
(* (app/routes/resample.py).                                               *)
(*                                                                         *)
(* Text read from a CSV file is a sequence of tokens.  A token is either   *)
(* one of the delimiter characters the code looks for ("T", ".", "+", a    *)
(* blank) or a run of characters holding none of them, so replace(),       *)
(* split() and strip() act on tokens exactly as they act on characters.    *)
(***************************************************************************)
EXTENDS Integers, Sequences, FiniteSets, TLC

\* ------------------------------------------------------------------ bounds
\* Largest number of data rows one merge request uploads.
MaxRows == 2
\* Largest number of data rows of a request that overlaps another.
MaxRaceRows == 1

\* ------------------------------------------------------- python/pandas values
\* A value as python sees it: a str (token sequence), an int, a datetime
\* (date, time) as pymysql returns it for a DATETIME column, or None.
PyStr(s) == [py |-> "str", v |-> s]
PyInt(n) == [py |-> "int", v |-> n]
PyDatetime(d, t) == [py |-> "datetime", v |-> <<d, t>>]
PyNone == [py |-> "None", v |-> <<>>]

RECURSIVE Join(_)
\* The character string a token sequence spells.
Join(s) == IF s = <<>> THEN "" ELSE Head(s) \o Join(Tail(s))

\* str.replace(a, b): every occurrence.
Replace(s, a, b) == [i \in 1..Len(s) |-> IF s[i] = a THEN b ELSE s[i]]

\* str.split(c)[0]: the text before the first occurrence of c (all of it
\* when c does not occur).
SplitFirst(s, c) ==
    LET hits == {i \in 1..Len(s) : s[i] = c}
    IN  IF hits = {} THEN s
        ELSE SubSeq(s, 1, (CHOOSE i \in hits : \A j \in hits : i <= j) - 1)

\* str.strip(): leading and trailing blanks removed.
Strip(s) ==
    LET solid == {i \in 1..Len(s) : s[i] # " "}
    IN  IF solid = {} THEN <<>>
        ELSE SubSeq(s, CHOOSE i \in solid : \A j \in solid : i <= j,
                       CHOOSE i \in solid : \A j \in solid : i >= j)

\* A run of characters that spells no number, date or time.
Malformed == "n/a"

\* int(cell) of a StrikePrice cell: the number of a numeric cell; a text
\* that spells no number raises ValueError.
IntRaises(cell) == cell.py = "str" /\ cell.v = <<Malformed>>
IntOf(cell) == cell.v

\* datetime.strftime('%Y-%m-%d %H:%M:%S')
Strftime(dt) == <<dt[1], " ", dt[2]>>

\* merge.py normalize_dt
normalize_dt(val) ==
    IF val.py = "None" THEN ""
    ELSE IF val.py = "datetime" THEN Join(Strftime(val.v))
    ELSE Join(Strip(SplitFirst(SplitFirst(Replace(val.v, "T", " "), "."), "+")))

\* ------------------------------------------------------------ the store
\* database.py BASE_TABLES
BASE_TABLES == {"ib_2w_call_1min", "ib_2w_put_1min", "ib_stock_1min"}

\* merge.py: the tables whose identity key is the timestamp alone.
StockTables == {"ib_stock_1min", "ib_vix_1min"}

\* merge.py key_cols
key_cols(table) ==
    IF table \in StockTables THEN {"Timestamp"}
    ELSE {"StrikePrice", "ContractType", "ExpiryDate", "Timestamp"}

\* How the store reads a text into a DATETIME column (create_base_table
\* declares ExpiryDate and Timestamp DATETIME): a date alone is midnight of
\* that date, "T" separates date and time as a blank does, and a fraction
\* of zero is dropped.  Defined for the spellings the uploads below use.
ToDatetime(s) ==
    IF Len(s) = 1 THEN <<s[1], "00:00:00">> ELSE <<s[1], s[3]>>

\* The stored row a CSV row becomes: INT and VARCHAR columns keep the value
\* as written, DATETIME columns hold the instant read from the text.
StoredRow(table, row) ==
    IF table \in StockTables
    THEN [Timestamp |-> ToDatetime(row.Timestamp)]
    ELSE [StrikePrice |-> IntOf(row.StrikePrice),
          ContractType |-> row.ContractType,
          ExpiryDate |-> ToDatetime(row.ExpiryDate),
          Timestamp |-> ToDatetime(row.Timestamp)]

\* Variant of IncorrectDatetime for a store that takes any text for a
\* DATETIME column; MalformedBatchFails fails on it.
IncorrectDatetime_lenient(table, rows) == FALSE

\* The store refuses a text that spells no date for a DATETIME column
\* (error 1292 under the server's default strict mode), and with it the
\* whole insert.
IncorrectDatetime(table, rows) ==
    \E i \in 1..Len(rows) :
        \/ rows[i].Timestamp = <<Malformed>>
        \/ table \notin StockTables /\ rows[i].ExpiryDate = <<Malformed>>

\* to_sql(if_exists='append') into a table whose PRIMARY KEY is all the key
\* columns: the insert is one transaction, and a row whose primary key is
\* already stored, or is carried by an earlier row of the same insert,
\* makes the whole insert fail.
PrimaryKeyClash(table, stored, rows) ==
    \/ \E i \in 1..Len(rows) : StoredRow(table, rows[i]) \in stored
    \/ \E i, j \in 1..Len(rows) :
          i < j /\ StoredRow(table, rows[i]) = StoredRow(table, rows[j])

to_sql(table, stored, rows) ==
    stored \cup {StoredRow(table, rows[i]) : i \in 1..Len(rows)}

\* The rows of a SELECT of the key columns, as pymysql returns them.
FetchedRow(table, r) ==
    IF table \in StockTables
    THEN [Timestamp |-> PyDatetime(r.Timestamp[1], r.Timestamp[2])]
    ELSE [StrikePrice |-> r.StrikePrice,
          ContractType |-> r.ContractType,
          ExpiryDate |-> PyDatetime(r.ExpiryDate[1], r.ExpiryDate[2]),
          Timestamp |-> PyDatetime(r.Timestamp[1], r.Timestamp[2])]

\* A row of the uploaded CSV as pandas holds it: key texts are str objects.
CsvCell(row, col) ==
    IF col = "StrikePrice" THEN row.StrikePrice ELSE PyStr(row[col])

\* ------------------------------------------------------- the key extractor
\* merge.py lines 178 and 201: the key of a stock row.
StockKey(ts) == <<normalize_dt(ts)>>

\* merge.py lines 181-186 and 203-208: the key of an option row.
OptionKey(strike, ctype, expiry, ts) ==
    <<strike, Join(Strip(ctype)), normalize_dt(expiry), normalize_dt(ts)>>

\* The key of a row fetched from the table (lines 176-187).
ExistingKey(table, r) ==
    IF table \in StockTables
    THEN StockKey(FetchedRow(table, r).Timestamp)
    ELSE OptionKey(r.StrikePrice, r.ContractType,
                   FetchedRow(table, r).ExpiryDate, FetchedRow(table, r).Timestamp)

\* The key of a row of the uploaded batch (row_exists, lines 200-208).
CsvKey(table, row) ==
    IF table \in StockTables
    THEN StockKey(CsvCell(row, "Timestamp"))
    ELSE OptionKey(IntOf(CsvCell(row, "StrikePrice")), row.ContractType,
                   CsvCell(row, "ExpiryDate"), CsvCell(row, "Timestamp"))

\* merge.py lines 175-187
ExistingKeys(table, stored) == {ExistingKey(table, r) : r \in stored}

\* Variant of row_exists that looks the cells up as read, without
\* normalize_dt or strip; NewKeysNotExisting fails on it.
row_exists_as_read(table, keys, row) ==
    (IF table \in StockTables
     THEN <<Join(row.Timestamp)>>
     ELSE <<IntOf(row.StrikePrice), Join(row.ContractType), Join(row.ExpiryDate),
            Join(row.Timestamp)>>) \in keys

\* merge.py row_exists
row_exists(table, keys, row) == CsvKey(table, row) \in keys

\* ------------------------------------------------------ pandas operations
\* The values drop_duplicates(subset=key_cols) compares: the cells as read.
RawKey(table, row) ==
    IF table \in StockTables
    THEN <<Join(row.Timestamp)>>
    ELSE <<row.StrikePrice, Join(row.ContractType), Join(row.ExpiryDate),
           Join(row.Timestamp)>>

\* DataFrame.drop_duplicates(subset=key_cols): the first row of each group
\* of rows equal on the subset is kept, in order.
drop_duplicates(table, df) ==
    LET keep == {i \in 1..Len(df) :
                    \A j \in 1..(i - 1) : RawKey(table, df[j]) # RawKey(table, df[i])}
        F[i \in 0..Len(df)] ==
            IF i = 0 THEN <<>>
            ELSE IF i \in keep THEN Append(F[i - 1], df[i]) ELSE F[i - 1]
    IN  F[Len(df)]

\* df[mask] for a boolean mask given as the set of selected positions.
Select(df, picked) ==
    LET F[i \in 0..Len(df)] ==
            IF i = 0 THEN <<>>
            ELSE IF i \in picked THEN Append(F[i - 1], df[i]) ELSE F[i - 1]
    IN  F[Len(df)]

\* merge.py line 227: mask = merged_data.apply(row_exists, axis=1)
Mask(table, keys, df) == {i \in 1..Len(df) : row_exists(table, keys, df[i])}

\* merge.py line 228: duplicate_rows = merged_data[mask]
DuplicateRows(df, mask) == Select(df, mask)

\* Variant of NewRows without the negation of the mask; CountsAddUp fails
\* on it.
NewRows_masked(df, mask) == Select(df, mask)

\* merge.py line 239: new_data = merged_data[~mask]
NewRows(df, mask) == Select(df, (1..Len(df)) \ mask)

\* Variant of CountSkipped that forgets the subtraction;
\* ResponseCountsAddUp fails on it.
CountSkipped_all(rows_before_filter, fresh) == rows_before_filter

\* merge.py line 240: duplicates_skipped = rows_before_filter - len(new_data)
CountSkipped(rows_before_filter, fresh) == rows_before_filter - Len(fresh)

\* ------------------------------------------------------------ the uploads
\* Spellings of a date and time in a CSV cell.
Plain(d, t) == <<d, " ", t>>
WithT(d, t) == <<d, "T", t>>
WithFraction(d, t) == <<d, " ", t, ".", "000">>
DateOnly(d) == <<d>>

\* The rows a call file may hold: one contract minute, and the same minute
\* with one key cell spelled differently.  A put file holds its header only.
OptionRow(c, e, t) ==
    [StrikePrice |-> PyInt(450), ContractType |-> c, ExpiryDate |-> e, Timestamp |-> t]

OptionRows ==
    { OptionRow(<<"call">>, Plain("2026-01-16", "00:00:00"), Plain("2026-01-02", "09:31:00")),
      OptionRow(<<"call">>, Plain("2026-01-16", "00:00:00"), WithT("2026-01-02", "09:31:00")),
      OptionRow(<<" ", "call">>, Plain("2026-01-16", "00:00:00"), Plain("2026-01-02", "09:31:00")),
      OptionRow(<<"call">>, DateOnly("2026-01-16"), Plain("2026-01-02", "09:31:00")) }

PutRows == {}

\* The rows a stock file may hold: two minutes, one of them in two spellings.
StockRows ==
    { [Timestamp |-> Plain("2026-01-02", "09:31:00")],
      [Timestamp |-> WithFraction("2026-01-02", "09:31:00")],
      [Timestamp |-> Plain("2026-01-02", "09:32:00")] }

\* Sequences of at most n elements of S.
SeqUpTo(S, n) == UNION {[1..k -> S] : k \in 0..n}

\* What parse_filename returns for an uploaded file: None for a name that
\* matches neither pattern, else symbol, type and timeframe.
NoMatch == [symbol |-> "", type |-> "", tf |-> ""]
Parsed(sym, ty, tf) == [symbol |-> sym, type |-> ty, tf |-> tf]

FileNames ==
    { NoMatch,
      Parsed("qqq", "call", "1min"), Parsed("qqq", "put", "1min"),
      Parsed("qqq", "stock", "1min"), Parsed("spy", "call", "1min"),
      Parsed("qqq", "call", "5min"), Parsed("vix", "stock", "1min") }

\* The file names of an upload: no file, one file or two.
FileLists ==
    {<<>>} \cup {<<n>> : n \in FileNames} \cup {<<n, m>> : n \in FileNames, m \in FileNames}

\* The file names of an upload that overlaps another: no file, or one file
\* of the schema's symbol.
RaceFileLists ==
    {<<>>, <<Parsed("qqq", "call", "1min")>>, <<Parsed("qqq", "stock", "1min")>>}

\* The data rows a file of a given name may hold.
RowsOf(name) ==
    IF name.type = "call" THEN OptionRows
    ELSE IF name.type = "put" THEN PutRows
    ELSE IF name.type = "stock" THEN StockRows
    ELSE {}

\* Rows of a call file with a key cell that spells no value, beside one
\* contract minute and the minute after it.
MalformedOptionRows ==
    { OptionRow(<<"call">>, Plain("2026-01-16", "00:00:00"), Plain("2026-01-02", "09:31:00")),
      OptionRow(<<"call">>, Plain("2026-01-16", "00:00:00"), Plain("2026-01-02", "09:32:00")),
      [OptionRow(<<"call">>, Plain("2026-01-16", "00:00:00"),
                 Plain("2026-01-02", "09:31:00")) EXCEPT !.StrikePrice = PyStr(<<Malformed>>)],
      OptionRow(<<"call">>, <<Malformed>>, Plain("2026-01-02", "09:31:00")),
      OptionRow(<<"call">>, Plain("2026-01-16", "00:00:00"), <<Malformed>>) }

\* Rows of a stock file with a timestamp that spells no instant.
MalformedStockRows ==
    { [Timestamp |-> Plain("2026-01-02", "09:31:00")], [Timestamp |-> <<Malformed>>] }

MalformedRowsOf(name) ==
    IF name.type = "call" THEN MalformedOptionRows
    ELSE IF name.type = "stock" THEN MalformedStockRows
    ELSE {}

\* The schema every request names, and the symbol its name starts with.
SchemaSymbol == "qqq"

\* The destination tables a request may name ("" is a missing field).
RequestTables == BASE_TABLES \cup {"", "ib_vix_1min"}

\* The destination tables of requests that overlap.
RaceTables == {"ib_2w_call_1min", "ib_stock_1min"}

\* `x in table.lower()` for the words the validation looks for.
Contains(table, word) ==
    \/ table \in {"ib_2w_call_1min", "ib_2w_put_1min", "ib_stock_1min", "ib_vix_1min"}
       /\ word = "1min"
    \/ table = "ib_2w_call_1min" /\ word = "call"
    \/ table = "ib_2w_put_1min" /\ word = "put"

\* merge.py lines 75-127: the check of one file name against the request;
\* "ok" or the reason the request is rejected.
CheckFile(table, name) ==
    IF name = NoMatch THEN "Invalid filename format"
    ELSE IF name.symbol # SchemaSymbol THEN "symbol does not match schema"
    ELSE IF table = "ib_stock_1min"
         THEN IF name.type # "stock" THEN "option file for stock table"
              ELSE IF name.symbol = "vix" THEN "VIX file for stock table"
              ELSE "ok"
    ELSE IF table = "ib_vix_1min"
         THEN IF name.type # "stock" THEN "option file for VIX table"
              ELSE IF name.symbol # "vix" THEN "VIX table requires VIX files"
              ELSE "ok"
    ELSE IF name.type = "stock" THEN "stock file for option table"
    ELSE IF ~Contains(table, name.type) \/ ~Contains(table, name.tf)
         THEN "type or timeframe does not match table"
    ELSE "ok"

\* skipped_rows[:100] (merge.py line 284)
SampleLimit == 100

\* ---------------------------------------------------------------- state
\* The clients whose merge requests may overlap.
Procs == {1, 2}

VARIABLES
    tables,                \* the schema: per base table, whether it exists and its rows
    pc,                    \* where each client's request stands
    table,                 \* request.form['table']
    csv_rows,              \* the data rows of the uploaded files, in order
    merged_data,           \* merge.py merged_data
    total_rows_from_csv,   \* merge.py total_rows_from_csv
    csv_dupes_count,       \* merge.py csv_dupes_count
    existing_keys,         \* merge.py existing_keys
    new_data,              \* merge.py new_data
    skipped_rows,          \* merge.py skipped_rows
    duplicates_skipped,    \* merge.py duplicates_skipped
    response,              \* what the request of the client returned
    last_merge             \* history: the request that completed last, if it merged

locals == <<table, csv_rows, merged_data, total_rows_from_csv, csv_dupes_count,
            existing_keys, new_data, skipped_rows, duplicates_skipped>>

mergeVars == <<tables, pc, locals, response, last_merge>>

\* The key probe.
VARIABLES
    probe,        \* the row of the batch under test
    probe_pc,     \* "none", "drawn" or "checked"
    probe_dup     \* what row_exists answered for it

probeVars == <<probe, probe_pc, probe_dup>>

\* The resample of one source table.
VARIABLES
    src_table,    \* the 1-minute table resampled
    src_rows,     \* its rows
    dest_tf,      \* the timeframe tag of the destination filled last, "" if none
    dest_rows     \* the rows of that destination

resampleVars == <<src_table, src_rows, dest_tf, dest_rows>>

\* The resample requests against one schema.
VARIABLES
    schema_tables, \* the tables of the schema the resample requests work on
    api_request,   \* the resample request served last
    api_response   \* what it returned

apiVars == <<schema_tables, api_request, api_response>>

vars == <<mergeVars, probeVars, resampleVars, apiVars>>

\* No request has completed, or the last one did not merge.
NoMerge == [table |-> "", rows |-> <<>>]

NoResponse ==
    [code |-> 0, error |-> "", total_rows |-> 0, rows_inserted |-> 0,
     duplicates_skipped |-> 0, csv_dupes |-> 0, skipped_rows |-> <<>>]

Failure(code, why) == [NoResponse EXCEPT !.code = code, !.error = why]

MergeInit ==
    /\ last_merge = NoMerge
    /\ tables = [t \in BASE_TABLES |-> [exists |-> FALSE, rows |-> {}]]
    /\ pc = [p \in Procs |-> "idle"]
    /\ table = [p \in Procs |-> ""]
    /\ csv_rows = [p \in Procs |-> <<>>]
    /\ merged_data = [p \in Procs |-> <<>>]
    /\ total_rows_from_csv = [p \in Procs |-> 0]
    /\ csv_dupes_count = [p \in Procs |-> 0]
    /\ existing_keys = [p \in Procs |-> {}]
    /\ new_data = [p \in Procs |-> <<>>]
    /\ skipped_rows = [p \in Procs |-> <<>>]
    /\ duplicates_skipped = [p \in Procs |-> 0]
    /\ response = [p \in Procs |-> NoResponse]

\* The handler returned: its locals are gone.
Return(p, resp) ==
    /\ pc' = [pc EXCEPT ![p] = "done"]
    /\ response' = [response EXCEPT ![p] = resp]
    /\ last_merge' = IF resp.code = 200
                     THEN [table |-> table[p], rows |-> csv_rows[p]]
                     ELSE NoMerge
    /\ table' = [table EXCEPT ![p] = ""]
    /\ csv_rows' = [csv_rows EXCEPT ![p] = <<>>]
    /\ merged_data' = [merged_data EXCEPT ![p] = <<>>]
    /\ total_rows_from_csv' = [total_rows_from_csv EXCEPT ![p] = 0]
    /\ csv_dupes_count' = [csv_dupes_count EXCEPT ![p] = 0]
    /\ existing_keys' = [existing_keys EXCEPT ![p] = {}]
    /\ new_data' = [new_data EXCEPT ![p] = <<>>]
    /\ skipped_rows' = [skipped_rows EXCEPT ![p] = <<>>]
    /\ duplicates_skipped' = [duplicates_skipped EXCEPT ![p] = 0]

\* Variant of create_base_table that leaves no other table of the schema
\* behind; DifferentDestinationsIndependent fails on it.
create_base_table_alone(db, t) ==
    [x \in DOMAIN db |-> IF x = t THEN [db[x] EXCEPT !.exists = TRUE]
                         ELSE [exists |-> FALSE, rows |-> {}]]

\* database.py create_base_table: CREATE TABLE IF NOT EXISTS.
create_base_table(db, t) == [db EXCEPT ![t].exists = TRUE]

\* The file names of an upload, and the rows of its files in order.
RECURSIVE Concat(_)
Concat(files) ==
    IF files = <<>> THEN <<>> ELSE Head(files).rows \o Concat(Tail(files))

\* The first file name the validation loop rejects, as its reason, or "ok".
RECURSIVE CheckFiles(_, _)
CheckFiles(t, files) ==
    IF files = <<>> THEN "ok"
    ELSE IF CheckFile(t, Head(files).name) # "ok" THEN CheckFile(t, Head(files).name)
    ELSE CheckFiles(t, Tail(files))

\* merge.py lines 55-150: the request is validated, the base table is
\* created if absent, the files are read and concatenated, and the rows
\* equal on the key columns as read are dropped.
Accept(p, t, files) ==
    LET df == Concat(files)
        deduped == drop_duplicates(t, df)
    IN  /\ tables' = create_base_table(tables, t)
        /\ pc' = [pc EXCEPT ![p] = "validated"]
        /\ table' = [table EXCEPT ![p] = t]
        /\ csv_rows' = [csv_rows EXCEPT ![p] = df]
        /\ total_rows_from_csv' = [total_rows_from_csv EXCEPT ![p] = Len(df)]
        /\ csv_dupes_count' = [csv_dupes_count EXCEPT ![p] = Len(df) - Len(deduped)]
        /\ merged_data' = [merged_data EXCEPT ![p] = deduped]
        /\ response' = [response EXCEPT ![p] = NoResponse]
        /\ UNCHANGED <<existing_keys, new_data, skipped_rows, duplicates_skipped,
                       last_merge>>

\* The uploads of a request whose files carry the names `names`: at most
\* `cap` rows in all, those of a file drawn from rows_of[its name].
Uploads(names, cap, rows_of) ==
    IF Len(names) = 0 THEN {<<>>}
    ELSE IF Len(names) = 1
    THEN {<<[name |-> names[1], rows |-> r]>> : r \in SeqUpTo(rows_of[names[1]], cap)}
    ELSE UNION {
           {<<[name |-> names[1], rows |-> r1], [name |-> names[2], rows |-> r2]>> :
               r2 \in SeqUpTo(rows_of[names[2]], cap - Len(r1))} :
           r1 \in SeqUpTo(rows_of[names[1]], cap)}

Start(p, cap, requested, lists, rows_of) ==
    /\ pc[p] \in {"idle", "done"}
    /\ \E t \in requested, names \in lists :
          IF t = "" THEN
              Return(p, Failure(400, "Missing schema or table")) /\ UNCHANGED tables
          ELSE IF names = <<>> THEN
              Return(p, Failure(400, "No files uploaded")) /\ UNCHANGED tables
          ELSE IF t \notin BASE_TABLES THEN
              Return(p, Failure(400, "Invalid table")) /\ UNCHANGED tables
          ELSE IF CheckFiles(t, [i \in 1..Len(names) |-> [name |-> names[i]]]) # "ok" THEN
              /\ tables' = create_base_table(tables, t)
              /\ Return(p, Failure(400,
                     CheckFiles(t, [i \in 1..Len(names) |-> [name |-> names[i]]])))
          ELSE \E files \in Uploads(names, cap, rows_of) : Accept(p, t, files)
    /\ UNCHANGED <<probeVars, resampleVars, apiVars>>

\* merge.py lines 153-240: the key columns of the table are read, and the
\* rows of the batch are split into those whose key was read and the rest.
\* int() of a strike cell that spells no number raises inside the try, and
\* the handler returns "Database error" (lines 254-255).
ReadKeys(p) ==
    /\ pc[p] = "validated"
    /\ IF /\ table[p] \notin StockTables
          /\ \E i \in 1..Len(merged_data[p]) : IntRaises(merged_data[p][i].StrikePrice)
       THEN /\ UNCHANGED tables
            /\ Return(p, Failure(500, "Database error: invalid literal for int()"))
       ELSE LET keys == ExistingKeys(table[p], tables[table[p]].rows)
                mask == Mask(table[p], keys, merged_data[p])
                rows_before_filter == Len(merged_data[p])
                duplicate_rows == DuplicateRows(merged_data[p], mask)
                fresh == NewRows(merged_data[p], mask)
            IN  /\ existing_keys' = [existing_keys EXCEPT ![p] = keys]
                /\ skipped_rows' = [skipped_rows EXCEPT ![p] = duplicate_rows]
                /\ new_data' = [new_data EXCEPT ![p] = fresh]
                /\ duplicates_skipped' =
                       [duplicates_skipped EXCEPT ![p] = CountSkipped(rows_before_filter, fresh)]
                /\ pc' = [pc EXCEPT ![p] = "classified"]
                /\ UNCHANGED <<tables, table, csv_rows, merged_data, total_rows_from_csv,
                               csv_dupes_count, response, last_merge>>
    /\ UNCHANGED <<probeVars, resampleVars, apiVars>>

\* merge.py lines 242-284: the new rows are appended in one insert, and the
\* counts are returned; a failed insert returns "Database error".
AppendRows(p) ==
    /\ pc[p] = "classified"
    /\ IF IncorrectDatetime(table[p], new_data[p])
       THEN /\ UNCHANGED tables
            /\ Return(p, Failure(500, "Database error: Incorrect datetime value"))
       ELSE IF Len(new_data[p]) > 0
          /\ PrimaryKeyClash(table[p], tables[table[p]].rows, new_data[p])
       THEN /\ UNCHANGED tables
            /\ Return(p, Failure(500, "Database error"))
       ELSE /\ tables' = [tables EXCEPT ![table[p]].rows =
                             to_sql(table[p], @, new_data[p])]
            /\ Return(p, [code |-> 200, error |-> "",
                          total_rows |-> total_rows_from_csv[p],
                          rows_inserted |-> Len(new_data[p]),
                          duplicates_skipped |-> duplicates_skipped[p],
                          csv_dupes |-> csv_dupes_count[p],
                          skipped_rows |->
                              SubSeq(skipped_rows[p], 1,
                                     IF Len(skipped_rows[p]) < SampleLimit
                                     THEN Len(skipped_rows[p]) ELSE SampleLimit)])
    /\ UNCHANGED <<probeVars, resampleVars, apiVars>>

\* ------------------------------------------------------------ key probe
\* The option table whose keys the probe reads.
ProbeTable == "ib_2w_call_1min"

\* Spellings of one date and time: "T" or a blank between date and time, a
\* fraction of a second or none, and an offset suffix or none.
Spellings(d, t) ==
    { <<d, sep, t>> \o frac \o zone :
        sep \in {" ", "T"},
        frac \in {<<>>, <<".", "000">>},
        zone \in {<<>>, <<"+", "00:00">>, <<"-05:00">>, <<"Z">>} }

\* Rows that all denote strike 450, call, expiry 2026-01-16 00:00:00 and
\* minute 2026-01-02 09:31:00.
ProbeRows ==
    { OptionRow(<<"call">>, e, t) :
        e \in Spellings("2026-01-16", "00:00:00"),
        t \in Spellings("2026-01-02", "09:31:00") }

\* The stored row of that contract minute.
ProbeStored ==
    [StrikePrice |-> 450, ContractType |-> <<"call">>,
     ExpiryDate |-> <<"2026-01-16", "00:00:00">>,
     Timestamp |-> <<"2026-01-02", "09:31:00">>]

ProbeIdle ==
    /\ probe = OptionRow(<<"call">>, Plain("2026-01-16", "00:00:00"),
                         Plain("2026-01-02", "09:31:00"))
    /\ probe_pc = "none"
    /\ probe_dup = FALSE

ProbeInit ==
    /\ probe \in ProbeRows
    /\ probe_pc = "drawn"
    /\ probe_dup = FALSE

\* merge.py lines 175-209 for a table that holds ProbeStored: the keys of
\* the table are built and the row of the batch is looked up.
CheckProbe ==
    /\ probe_pc = "drawn"
    /\ probe_dup' = row_exists(ProbeTable, ExistingKeys(ProbeTable, {ProbeStored}), probe)
    /\ probe_pc' = "checked"
    /\ UNCHANGED <<probe, mergeVars, resampleVars, apiVars>>

\* ------------------------------------------------------------ resample
\* resample.py TIMEFRAMES
TIMEFRAMES == ("3min" :> 3) @@ ("5min" :> 5) @@ ("15min" :> 15) @@ ("1hr" :> 60)

\* ' 09:30:00' and '15:59:00' of the queries, in seconds of the day.
SessionOpen == 34200
SessionClose == 57540

\* Largest number of rows of the source table.
MaxSrcRows == 3

\* A nullable column value: <<>> is NULL, <<v>> the value v.
Null == <<>>
Val(v) == <<v>>

\* A row of a 1-minute table: the instrument columns (none for a stock
\* table), the timestamp as a day and the second of that day, and the quote.
SrcRow(prefix, day, time, o, c, h, l, v) ==
    [prefix |-> prefix, day |-> day, time |-> time,
     Open |-> o, Close |-> c, High |-> h, Low |-> l, Volume |-> v]

\* resample.py get_table_type
get_table_type(src) ==
    IF src = "ib_stock_1min" THEN "stock"
    ELSE IF src = "ib_vix_1min" THEN "vix"
    ELSE "option"

\* Variant of InSession whose upper bound is open; OnlyQualifyingRowsCount
\* fails on it.
InSession_before_close(r) == r.time >= SessionOpen /\ r.time < SessionClose

\* WHERE TIME(Timestamp) BETWEEN '09:30:00' AND '15:59:00'
InSession(r) == r.time >= SessionOpen /\ r.time <= SessionClose

\* AND Open IS NOT NULL AND Close IS NOT NULL AND High IS NOT NULL AND Low IS NOT NULL
NotNull(r) == r.Open # Null /\ r.Close # Null /\ r.High # Null /\ r.Low # Null

\* The rows the WHERE clause of both queries keeps.
Where(rows) == {r \in rows : InSession(r) /\ NotNull(r)}

\* TIMESTAMPDIFF(MINUTE, CONCAT(DATE(Timestamp), ' 09:30:00'), Timestamp):
\* whole minutes, the remainder dropped.
TimestampDiffMinute(r) == (r.time - SessionOpen) \div 60

\* a / b of two integers: a decimal of four places, rounded half up, held
\* here in units of 1/10000.
Divide(a, b) == (2 * a * 10000 + b) \div (2 * b)

\* Variant of Floor that rounds to the nearest integer; BucketStartIsFloor
\* fails on it.
Floor_round(x) == (x + 5000) \div 10000

\* FLOOR of such a decimal.
Floor(x) == x \div 10000

\* FLOOR(TIMESTAMPDIFF(...) / tf_minutes) AS bucket_id
bucket_id(r, tf_minutes) == Floor(Divide(TimestampDiffMinute(r), tf_minutes))

\* Variant of candle_ts that anchors every bucket to the first day;
\* BucketsMonotone fails on it.
candle_ts_one_day(r, tf_minutes) ==
    [day |-> 1, time |-> SessionOpen + bucket_id(r, tf_minutes) * tf_minutes * 60]

\* DATE_ADD(CONCAT(DATE(Timestamp), ' 09:30:00'), INTERVAL bucket_id * tf MINUTE)
candle_ts(r, tf_minutes) ==
    [day |-> r.day, time |-> SessionOpen + bucket_id(r, tf_minutes) * tf_minutes * 60]

\* The rows of one GROUP BY group.
Group(rows, tf_minutes, prefix, ts) ==
    {r \in rows : r.prefix = prefix /\ candle_ts(r, tf_minutes) = ts}

\* The keys of the GROUP BY groups.
GroupKeys(rows, tf_minutes) ==
    {<<r.prefix, candle_ts(r, tf_minutes)>> : r \in rows}

\* The order of two timestamps.
Earlier(a, b) == a.day < b.day \/ (a.day = b.day /\ a.time <= b.time)

RECURSIVE OrderByTimestamp(_)
\* The rows of a group ORDER BY Timestamp.
OrderByTimestamp(G) ==
    IF G = {} THEN <<>>
    ELSE LET first == CHOOSE r \in G : \A q \in G : Earlier(r, q)
         IN  <<first>> \o OrderByTimestamp(G \ {first})

\* Variant of OptionOpen that takes the last row of the group;
\* OneCandlePerGroup fails on it.
OptionOpen_last(G) == OrderByTimestamp(G)[Cardinality(G)].Open

\* SUBSTRING_INDEX(GROUP_CONCAT(Open ORDER BY Timestamp), ',', 1)
OptionOpen(G) == Head(OrderByTimestamp(G)).Open

\* SUBSTRING_INDEX(GROUP_CONCAT(Close ORDER BY Timestamp DESC), ',', 1)
OptionClose(G) == OrderByTimestamp(G)[Cardinality(G)].Close

\* DATE_FORMAT(orig_ts, '%Y%m%d%H%i%s'): fourteen digits, ordered as the
\* instants are.
DateFormat(r) == r.day * 86400 + r.time

\* The order of two texts CONCAT(DATE_FORMAT(orig_ts, ...), '|', value).
TextLeq(a, b) == a[1] < b[1] \/ (a[1] = b[1] /\ a[2] <= b[2])

\* CAST(SUBSTRING_INDEX(MIN(CONCAT(DATE_FORMAT(orig_ts, ...), '|', Open)), '|', -1) ...)
StockOpen(G) ==
    LET texts == {<<DateFormat(r), r.Open[1]>> : r \in G}
    IN  Val((CHOOSE x \in texts : \A y \in texts : TextLeq(x, y))[2])

\* CAST(SUBSTRING_INDEX(MAX(CONCAT(DATE_FORMAT(orig_ts, ...), '|', Close)), '|', -1) ...)
StockClose(G) ==
    LET texts == {<<DateFormat(r), r.Close[1]>> : r \in G}
    IN  Val((CHOOSE x \in texts : \A y \in texts : TextLeq(y, x))[2])

\* Variant of MaxHigh that takes the smallest high; WellFormedCandleBounds
\* fails on it.
MaxHigh_min(G) == Val(CHOOSE h \in {r.High[1] : r \in G} : \A r \in G : h <= r.High[1])

\* MAX(High)
MaxHigh(G) == Val(CHOOSE h \in {r.High[1] : r \in G} : \A r \in G : r.High[1] <= h)

\* MIN(Low)
MinLow(G) == Val(CHOOSE l \in {r.Low[1] : r \in G} : \A r \in G : l <= r.Low[1])

RECURSIVE Total(_)
Total(G) ==
    IF G = {} THEN 0
    ELSE LET r == CHOOSE x \in G : TRUE IN r.Volume[1] + Total(G \ {r})

\* SUM(Volume): NULL volumes are skipped, and the sum of none is NULL.
SumVolume(G) ==
    LET counted == {r \in G : r.Volume # Null}
    IN  IF counted = {} THEN Null ELSE Val(Total(counted))

\* The SELECT ... GROUP BY of execute_resample_option over the filtered rows.
OptionCandles(rows, tf_minutes) ==
    { LET G == Group(rows, tf_minutes, k[1], k[2])
      IN  SrcRow(k[1], k[2].day, k[2].time, OptionOpen(G), OptionClose(G),
                 MaxHigh(G), MinLow(G), SumVolume(G)) :
      k \in GroupKeys(rows, tf_minutes) }

\* The SELECT ... GROUP BY of execute_resample_stock over the filtered rows.
StockCandles(rows, tf_minutes) ==
    { LET G == Group(rows, tf_minutes, k[1], k[2])
      IN  SrcRow(k[1], k[2].day, k[2].time, StockOpen(G), StockClose(G),
                 MaxHigh(G), MinLow(G), SumVolume(G)) :
      k \in GroupKeys(rows, tf_minutes) }

\* The quotes of the source rows: two ordinary minutes at different price
\* levels, and a minute without volume whose high lies below its low.
Quotes ==
    { [o |-> Val(10), c |-> Val(12), h |-> Val(13), l |-> Val(9), v |-> Val(5)],
      [o |-> Val(5), c |-> Val(6), h |-> Val(7), l |-> Val(4), v |-> Val(3)],
      [o |-> Val(20), c |-> Val(18), h |-> Val(17), l |-> Val(21), v |-> Null] }

\* The rows a source table may hold, for the instrument columns given:
\* minutes of one bucket and the next, minutes at and around the session
\* bounds, minutes with one price missing, and a minute of the next day.
SourceRowsOf(prefix) ==
    { SrcRow(prefix, 1, t, q.o, q.c, q.h, q.l, q.v) :
        t \in {34200, 34350, 34380}, q \in Quotes }
    \cup
    { SrcRow(prefix, 1, t, Val(10), Val(12), Val(13), Val(9), Val(5)) :
        t \in {34199, 57540, 57541, 57600} }
    \cup
    { SrcRow(prefix, 1, 34260, Null, Val(12), Val(13), Val(9), Val(5)),
      SrcRow(prefix, 1, 34260, Val(10), Null, Val(13), Val(9), Val(5)),
      SrcRow(prefix, 1, 34260, Val(10), Val(12), Null, Val(9), Val(5)),
      SrcRow(prefix, 1, 34260, Val(10), Val(12), Val(13), Null, Val(5)),
      SrcRow(prefix, 2, 34200, Val(20), Val(18), Val(17), Val(21), Null) }

ContractA == <<450, "call", "2026-01-16">>
ContractB == <<455, "call", "2026-01-16">>

SourceRows(src) ==
    IF get_table_type(src) = "option"
    THEN SourceRowsOf(ContractA)
         \cup {SrcRow(ContractB, 1, 34200, Val(10), Val(12), Val(13), Val(9), Val(5))}
    ELSE SourceRowsOf(<<>>)

\* PRIMARY KEY of a base table: instrument columns and timestamp.
PrimaryKeyOf(r) == <<r.prefix, r.day, r.time>>

SourceTables(src) ==
    { S \in SUBSET SourceRows(src) :
        /\ Cardinality(S) <= MaxSrcRows
        /\ \A a, b \in S : PrimaryKeyOf(a) = PrimaryKeyOf(b) => a = b }

ResampleIdle ==
    /\ src_table = "ib_stock_1min"
    /\ src_rows = {}
    /\ dest_tf = ""
    /\ dest_rows = {}

ResampleInit ==
    /\ src_table \in {"ib_2w_call_1min", "ib_stock_1min"}
    /\ src_rows \in SourceTables(src_table)
    /\ dest_tf = ""
    /\ dest_rows = {}

\* resample.py execute_resample_option, into the empty destination its
\* caller has just created.
execute_resample_option(tf_name) ==
    /\ get_table_type(src_table) = "option"
    /\ dest_tf' = tf_name
    /\ dest_rows' = OptionCandles(Where(src_rows), TIMEFRAMES[tf_name])
    /\ UNCHANGED <<src_table, src_rows, mergeVars, probeVars, apiVars>>

\* resample.py execute_resample_stock, into the empty destination its
\* caller has just created.
execute_resample_stock(tf_name) ==
    /\ get_table_type(src_table) \in {"stock", "vix"}
    /\ dest_tf' = tf_name
    /\ dest_rows' = StockCandles(Where(src_rows), TIMEFRAMES[tf_name])
    /\ UNCHANGED <<src_table, src_rows, mergeVars, probeVars, apiVars>>

\* ------------------------------------------------- the resample requests
\* A table name as the text pieces replace() tells apart: the stem and the
\* timeframe suffix.
CallSource == <<"ib_2w_call", "_1min">>
ResampledCall == <<"ib_2w_call", "_3min">>

\* The tables a request may name as its source: the 1-minute call table and
\* a table an earlier resample of it has made.
SourceNames == {CallSource, ResampledCall}

\* The timeframe tags a request may carry: two of TIMEFRAMES and one that
\* is not.
RequestTags == {"3min", "1hr", "2min"}

\* dest_table = src_table.replace('_1min', f'_{tf_name}')
dest_table_of(src, tf_name) == Replace(src, "_1min", "_" \o tf_name)

\* The names of the tables of the schema.
ApiTables ==
    {Join(n) : n \in SourceNames}
    \cup {Join(dest_table_of(n, tf)) : n \in SourceNames, tf \in RequestTags}

\* A table that does not exist, and an empty table of a given column set.
Absent == [exists |-> FALSE, shape |-> "", rows |-> {}]
EmptyTable(shape) == [exists |-> TRUE, shape |-> shape, rows |-> {}]

\* What a DDL or DML statement may do: "ok", or fail at the server.
Faults == {"none", "create", "insert"}

\* database.py create_resampled_table / app.py create_dest_table body:
\* DROP TABLE IF EXISTS, CREATE TABLE with the option columns, commit; an
\* exception of the first statement is caught and answered False.
DropAndCreate(d, dest_table, fault) ==
    IF fault = "create"
    THEN [ok |-> FALSE, raised |-> FALSE, db |-> d]
    ELSE [ok |-> TRUE, raised |-> FALSE,
          db |-> [d EXCEPT ![dest_table] = EmptyTable("option")]]

\* A python call of a function of two parameters: with another number of
\* arguments it raises TypeError before the body runs.
create_resampled_table(d, args, fault) ==
    IF Len(args) # 2
    THEN [ok |-> FALSE, raised |-> TRUE, db |-> d]
    ELSE DropAndCreate(d, args[2], fault)

\* app.py create_dest_table
create_dest_table(d, args, fault) ==
    IF Len(args) # 2
    THEN [ok |-> FALSE, raised |-> TRUE, db |-> d]
    ELSE DropAndCreate(d, args[2], fault)

\* A candle that has the primary key of a row of the destination.
CandleKeyClash(stored, candles) ==
    \E c \in candles, x \in stored : PrimaryKeyOf(c) = PrimaryKeyOf(x)

\* Variant of InsertOptionCandles that returns without the commit, so the
\* rows inserted are lost; DestinationReplaced fails on it.
InsertOptionCandles_uncommitted(d, src_table_name, dest_table, tf_minutes, fault) ==
    IF \/ fault = "insert"
       \/ ~d[src_table_name].exists \/ ~d[dest_table].exists
       \/ d[src_table_name].shape # "option" \/ d[dest_table].shape # "option"
    THEN [ok |-> FALSE, db |-> d]
    ELSE [ok |-> TRUE, db |-> d]

\* INSERT INTO dest ... SELECT ... FROM src of execute_resample_option and of
\* app.py execute_resample: the statement fails when a table is missing,
\* when the source lacks the option columns, when a candle has the primary
\* key of a stored row or when the server fails; the exception is caught,
\* the transaction rolled back and False returned.
InsertOptionCandles(d, src_table_name, dest_table, tf_minutes, fault) ==
    IF \/ fault = "insert"
       \/ ~d[src_table_name].exists \/ ~d[dest_table].exists
       \/ d[src_table_name].shape # "option" \/ d[dest_table].shape # "option"
       \/ CandleKeyClash(d[dest_table].rows,
                         OptionCandles(Where(d[src_table_name].rows), tf_minutes))
    THEN [ok |-> FALSE, db |-> d]
    ELSE [ok |-> TRUE,
          db |-> [d EXCEPT ![dest_table].rows =
                     @ \cup OptionCandles(Where(d[src_table_name].rows), tf_minutes)]]

\* INSERT INTO dest (Timestamp, Open, ...) ... of execute_resample_stock: the
\* destination needs no more columns than the statement names.
InsertStockCandles(d, src_table_name, dest_table, tf_minutes, fault) ==
    IF \/ fault = "insert"
       \/ ~d[src_table_name].exists \/ ~d[dest_table].exists
       \/ d[dest_table].shape # "stock"
       \/ CandleKeyClash(d[dest_table].rows,
                         StockCandles(Where(d[src_table_name].rows), tf_minutes))
    THEN [ok |-> FALSE, db |-> d]
    ELSE [ok |-> TRUE,
          db |-> [d EXCEPT ![dest_table].rows =
                     @ \cup StockCandles(Where(d[src_table_name].rows), tf_minutes)]]

\* The entries of the result list.
Succeeded(tf_name, dest_table) ==
    [timeframe |-> tf_name, success |-> TRUE, table |-> dest_table, error |-> ""]
Failed(tf_name, why) ==
    [timeframe |-> tf_name, success |-> FALSE, table |-> "", error |-> why]

\* resample.py api_resample, the body of the loop for one tag (lines
\* 216-248): the tables after it, the entry it appends if any, and whether
\* an exception left the handler.
RoutesIteration(d, src, tf_name, table_type, fault) ==
    IF tf_name \notin DOMAIN TIMEFRAMES
    THEN [db |-> d, entries |-> <<>>, raised |-> FALSE]
    ELSE LET dest_table == Join(dest_table_of(src, tf_name))
             created == create_resampled_table(d, <<SchemaSymbol, dest_table, table_type>>, fault)
             inserted ==
                 IF table_type \in {"stock", "vix"}
                 THEN InsertStockCandles(created.db, Join(src), dest_table,
                                         TIMEFRAMES[tf_name], fault)
                 ELSE InsertOptionCandles(created.db, Join(src), dest_table,
                                          TIMEFRAMES[tf_name], fault)
         IN  IF created.raised
             THEN [db |-> created.db, entries |-> <<>>, raised |-> TRUE]
             ELSE IF ~created.ok
             THEN [db |-> created.db, raised |-> FALSE,
                   entries |-> <<Failed(tf_name, "Failed to create destination table")>>]
             ELSE IF inserted.ok
             THEN [db |-> inserted.db, raised |-> FALSE,
                   entries |-> <<Succeeded(tf_name, dest_table)>>]
             ELSE [db |-> inserted.db, raised |-> FALSE,
                   entries |-> <<Failed(tf_name, "Failed to execute resampling")>>]

\* app.py api_resample, the body of the loop for one tag (lines 240-269).
AppIteration(d, src, tf_name, fault) ==
    IF tf_name \notin DOMAIN TIMEFRAMES
    THEN [db |-> d, entries |-> <<>>, raised |-> FALSE]
    ELSE LET dest_table == Join(dest_table_of(src, tf_name))
             created == create_dest_table(d, <<SchemaSymbol, dest_table>>, fault)
             inserted == InsertOptionCandles(created.db, Join(src), dest_table,
                                             TIMEFRAMES[tf_name], fault)
         IN  IF created.raised
             THEN [db |-> created.db, entries |-> <<>>, raised |-> TRUE]
             ELSE IF ~created.ok
             THEN [db |-> created.db, raised |-> FALSE,
                   entries |-> <<Failed(tf_name, "Failed to create destination table")>>]
             ELSE IF inserted.ok
             THEN [db |-> inserted.db, raised |-> FALSE,
                   entries |-> <<Succeeded(tf_name, dest_table)>>]
             ELSE [db |-> inserted.db, raised |-> FALSE,
                   entries |-> <<Failed(tf_name, "Failed to execute resampling")>>]

RECURSIVE Loop(_, _, _, _, _, _)
\* for tf_name in timeframes: the iterations in order, until the list ends
\* or an exception leaves the handler.  faults[i] is what the server does
\* to the statements of the i-th tag.
Loop(handler, d, src, timeframes, faults, results) ==
    IF timeframes = <<>>
    THEN [db |-> d, results |-> results, raised |-> FALSE]
    ELSE LET step == IF handler = "routes"
                     THEN RoutesIteration(d, src, Head(timeframes),
                                          get_table_type(Join(src)), Head(faults))
                     ELSE AppIteration(d, src, Head(timeframes), Head(faults))
         IN  IF step.raised
             THEN [db |-> step.db, results |-> results, raised |-> TRUE]
             ELSE Loop(handler, step.db, src, Tail(timeframes), Tail(faults),
                       results \o step.entries)

\* Largest number of timeframe tags of one resample request.
MaxTags == 2

\* The server faults of a request of n tags: none, or one statement of one tag.
FaultsOf(n) ==
    {[i \in 1..n |-> "none"]}
    \cup {[i \in 1..n |-> IF i = k THEN f ELSE "none"] :
             k \in 1..n, f \in Faults \ {"none"}}

\* The JSON bodies of the resample requests: a field missing, or a source
\* table with up to MaxTags tags.
ApiRequests ==
    {[schema |-> "", table |-> CallSource, timeframes |-> <<"3min">>],
     [schema |-> SchemaSymbol, table |-> <<>>, timeframes |-> <<"3min">>]}
    \cup {[schema |-> SchemaSymbol, table |-> src, timeframes |-> tfs] :
             src \in SourceNames, tfs \in SeqUpTo(RequestTags, MaxTags)}

\* The request served last; `replaced` is history: the tables other than
\* the source that held rows before the request and hold other rows after.
NoRequest == [table |-> "", timeframes |-> <<>>, replaced |-> {}]

ApiResponse(code, ok, why, results) ==
    [code |-> code, success |-> ok, error |-> why, results |-> results]

NoApiResponse == ApiResponse(0, FALSE, "", <<>>)

\* The rows the 1-minute call table may come to hold.
ApiSourceRows ==
    { SrcRow(ContractA, 1, 34200, Val(10), Val(12), Val(13), Val(9), Val(5)),
      SrcRow(ContractA, 1, 34350, Val(5), Val(6), Val(7), Val(4), Val(3)) }

\* The schema before the first resample: the base table exists, empty.
ApiIdle ==
    /\ schema_tables =
          [t \in ApiTables |->
              IF t = Join(CallSource) THEN EmptyTable("option") ELSE Absent]
    /\ api_request = NoRequest
    /\ api_response = NoApiResponse

\* A merge appends a row to the 1-minute call table (merge.py to_sql).
AppendSource ==
    /\ \E r \in ApiSourceRows \ schema_tables[Join(CallSource)].rows :
          schema_tables' = [schema_tables EXCEPT ![Join(CallSource)].rows = @ \cup {r}]
    /\ api_request' = NoRequest
    /\ api_response' = NoApiResponse
    /\ UNCHANGED <<mergeVars, probeVars, resampleVars>>

\* One resample request served by the handler named.
Serve(handler) ==
    /\ \E req \in ApiRequests :
          IF req.schema = "" \/ req.table = <<>> \/ req.timeframes = <<>>
          THEN /\ api_response' = ApiResponse(400, FALSE, "Missing required parameters", <<>>)
               /\ api_request' = [table |-> Join(req.table), timeframes |-> req.timeframes,
                                  replaced |-> {}]
               /\ UNCHANGED schema_tables
          ELSE \E faults \in FaultsOf(Len(req.timeframes)) :
               \E done \in {Loop(handler, schema_tables, req.table,
                                 req.timeframes, faults, <<>>)} :
                      /\ schema_tables' = done.db
                      /\ api_request' =
                            [table |-> Join(req.table), timeframes |-> req.timeframes,
                             replaced |-> {t \in ApiTables :
                                             /\ t # Join(req.table)
                                             /\ schema_tables[t].rows # {}
                                             /\ schema_tables[t].rows # done.db[t].rows}]
                      /\ api_response' =
                            IF done.raised
                            THEN ApiResponse(500, FALSE, "TypeError", <<>>)
                            ELSE ApiResponse(200, TRUE, "", done.results)
    /\ UNCHANGED <<mergeVars, probeVars, resampleVars>>

\* resample.py api_resample
api_resample == Serve("routes")

\* app.py api_resample
app_api_resample == Serve("app")

\* ------------------------------------------------------- specifications
Init == MergeInit /\ ProbeIdle /\ ResampleIdle /\ ApiIdle

\* One client, one request after the other.
Next ==
    \/ Start(1, MaxRows, RequestTables, FileLists, [n \in FileNames |-> RowsOf(n)])
    \/ ReadKeys(1)
    \/ AppendRows(1)

Spec == Init /\ [][Next]_vars

\* Two clients whose requests overlap, each uploading at most MaxRaceRows rows.
NextRace ==
    \E p \in Procs :
        \/ Start(p, MaxRaceRows, RaceTables, RaceFileLists,
                 [n \in FileNames |-> RowsOf(n)])
        \/ ReadKeys(p)
        \/ AppendRows(p)

SpecRace == Init /\ [][NextRace]_vars

\* The key extractor on rows of every spelling.
InitKey == MergeInit /\ ProbeInit /\ ResampleIdle /\ ApiIdle

NextKey == CheckProbe

SpecKey == InitKey /\ [][NextKey]_vars

\* The minutes of the session the bucket order is checked on: the first
\* minutes up to the first 15-minute boundary, the minutes around the first
\* and the second hour, and the last two minutes.
BucketMinutes == (0..16) \cup (58..61) \cup {119, 120, 388, 389}

\* A source table of at most two rows, on either of two days, at those
\* minutes.
BucketSources(src) ==
    LET prefix == IF get_table_type(src) = "option" THEN ContractA ELSE <<>>
        rows == {SrcRow(prefix, d, SessionOpen + 60 * k, Val(10), Val(12), Val(13), Val(9), Val(5)) :
                    d \in {1, 2}, k \in BucketMinutes}
    IN  {{a, b} : a \in rows, b \in rows}

\* The resample queries on pairs of in-session rows.
InitBucket ==
    /\ MergeInit /\ ProbeIdle /\ ApiIdle
    /\ src_table \in {"ib_2w_call_1min", "ib_stock_1min"}
    /\ src_rows \in BucketSources(src_table)
    /\ dest_tf = ""
    /\ dest_rows = {}

\* The resample queries on source tables of every content.
InitResample == MergeInit /\ ProbeIdle /\ ResampleInit /\ ApiIdle

NextResample ==
    \E tf_name \in DOMAIN TIMEFRAMES :
        \/ execute_resample_option(tf_name)
        \/ execute_resample_stock(tf_name)

\* The resample requests, by either handler, between merges into the source.
\* One client merging files that may hold rows with malformed key cells.
MalformedFileLists ==
    {<<Parsed("qqq", "call", "1min")>>, <<Parsed("qqq", "stock", "1min")>>}

NextMalformed ==
    \/ Start(1, MaxRows, RaceTables, MalformedFileLists,
             [n \in FileNames |-> MalformedRowsOf(n)])
    \/ ReadKeys(1)
    \/ AppendRows(1)

SpecMalformed == Init /\ [][NextMalformed]_vars

NextApi == api_resample \/ app_api_resample \/ AppendSource

SpecApi == Init /\ [][NextApi]_vars

SpecBucket == InitBucket /\ [][NextResample]_vars

SpecResample == InitResample /\ [][NextResample]_vars

\* ------------------------------------------------------- merge properties
\* The rows of a classified request, by position.
NewPositions(p) == 1..Len(new_data[p])

\* C1: no row that a merge call classifies as new has a canonical key that
\* is in the key set the call read from the table.
NewKeysNotExisting ==
    \A p \in Procs :
        pc[p] = "classified" =>
            \A i \in NewPositions(p) :
                CsvKey(table[p], new_data[p][i]) \notin existing_keys[p]

\* A call has read a non-empty key set and has classified one row of its
\* batch as a duplicate and another as new.
NewBesideDuplicate ==
    \E p \in Procs :
        /\ pc[p] = "classified"
        /\ existing_keys[p] # {}
        /\ new_data[p] # <<>>
        /\ skipped_rows[p] # <<>>

\* C2: the canonical keys of the rows a merge call classifies as new are
\* pairwise distinct, also when two rows of the batch write one key in two
\* ways.
NewKeysDistinct ==
    \A p \in Procs :
        pc[p] = "classified" =>
            \A i, j \in NewPositions(p) :
                CsvKey(table[p], new_data[p][i]) = CsvKey(table[p], new_data[p][j])
                    => i = j

\* C3: no two rows stored in one table have the same identity key.
PersistedKeysUnique ==
    \A t \in BASE_TABLES :
        \A a, b \in tables[t].rows :
            ExistingKey(t, a) = ExistingKey(t, b) => a = b

\* C4: a call that merges again the batch the call before it has merged
\* into the same table classifies no row as new and every row that is left
\* after drop_duplicates as a duplicate.
RemergeInsertsNothing ==
    \A p \in Procs :
        (/\ pc[p] = "classified"
         /\ last_merge = [table |-> table[p], rows |-> csv_rows[p]])
            => /\ new_data[p] = <<>>
               /\ skipped_rows[p] = merged_data[p]

\* C6: rows classified new plus rows classified duplicates are the rows
\* uploaded less the rows drop_duplicates removed.
CountsAddUp ==
    \A p \in Procs :
        pc[p] = "classified" =>
            Len(new_data[p]) + Len(skipped_rows[p])
                = Len(csv_rows[p]) - csv_dupes_count[p]

\* A call whose batch lost a row to drop_duplicates has classified a row
\* as new.
NewAfterIntraBatchDuplicate ==
    \E p \in Procs :
        /\ pc[p] = "classified"
        /\ csv_dupes_count[p] > 0
        /\ new_data[p] # <<>>

\* C7 as the specification states it: in a successful response the rows
\* inserted and the duplicates reported add up to the rows of the CSV.
InsertedPlusDuplicatesIsTotal ==
    \A p \in Procs :
        response[p].code = 200 =>
            response[p].rows_inserted + response[p].duplicates_skipped
                = response[p].total_rows

\* C7 as the code has it: the duplicates reported are the rows already
\* stored only; with the rows drop_duplicates removed, reported apart, the
\* counts add up to the rows of the CSV.
ResponseCountsAddUp ==
    \A p \in Procs :
        response[p].code = 200 =>
            response[p].rows_inserted + response[p].duplicates_skipped
                + response[p].csv_dupes = response[p].total_rows

\* A successful response that reports an inserted row and a row removed by
\* drop_duplicates.
ResponseWithIntraBatchDuplicate ==
    \E p \in Procs :
        /\ response[p].code = 200
        /\ response[p].csv_dupes > 0
        /\ response[p].rows_inserted > 0

\* ----------------------------------------------------- key properties
\* C5: a row whose expiry and timestamp are spelled with or without a
\* fraction, with or without an offset suffix, with "T" or a blank, has the
\* key of the stored row of that contract minute, and is a duplicate of it.
SpellingsShareKey == probe_pc = "checked" => probe_dup


\* ------------------------------------------------- resample properties
\* A qualifying source row as the specification defines it: time of day in
\* [09:30:00, 15:59:00] and open, close, high and low present.
Qualifying(r) ==
    /\ r.time >= SessionOpen /\ r.time <= SessionClose
    /\ r.Open # Null /\ r.Close # Null /\ r.High # Null /\ r.Low # Null

\* The bucket start the specification assigns to second t of a day for a
\* timeframe of m minutes: 09:30:00 plus floor(elapsed minutes / m) * m minutes.
BucketStart(t, m) == SessionOpen + ((((t - SessionOpen) \div 60) \div m) * m) * 60

\* The qualifying rows of the source that share prefix, day and bucket with r.
GroupOf(r, m) ==
    {q \in src_rows :
        /\ Qualifying(q)
        /\ q.prefix = r.prefix /\ q.day = r.day
        /\ BucketStart(q.time, m) = BucketStart(r.time, m)}

\* The candles of the destination at the bucket of r.
CandlesOf(r, m) ==
    {c \in dest_rows :
        c.prefix = r.prefix /\ c.day = r.day /\ c.time = BucketStart(r.time, m)}

\* C8: every group of qualifying rows of one prefix and one bucket has
\* exactly one candle; its open is the open of the earliest row, its close
\* the close of the latest row, its high the largest high and its low the
\* smallest low of the group, for option and for stock sources.
OneCandlePerGroup ==
    dest_tf # "" =>
        \A r \in src_rows :
            Qualifying(r) =>
                LET G == GroupOf(r, TIMEFRAMES[dest_tf])
                    C == CandlesOf(r, TIMEFRAMES[dest_tf])
                IN  /\ Cardinality(C) = 1
                    /\ \A c \in C :
                          /\ \E q \in G : (\A x \in G : q.time <= x.time) /\ c.Open = q.Open
                          /\ \E q \in G : (\A x \in G : q.time >= x.time) /\ c.Close = q.Close
                          /\ \E q \in G : (\A x \in G : q.High[1] >= x.High[1]) /\ c.High = q.High
                          /\ \E q \in G : (\A x \in G : q.Low[1] <= x.Low[1]) /\ c.Low = q.Low
                          /\ G = {r} => /\ c.Open = r.Open /\ c.Close = r.Close
                                        /\ c.High = r.High /\ c.Low = r.Low

\* A stock source with two qualifying rows of different quotes in one
\* bucket has been resampled.
TwoRowGroupResampled ==
    /\ dest_tf # ""
    /\ src_table = "ib_stock_1min"
    /\ \E r, q \in src_rows :
          /\ Qualifying(r) /\ Qualifying(q)
          /\ r.time < q.time
          /\ r.Open # q.Open /\ r.Close # q.Close
          /\ q \in GroupOf(r, TIMEFRAMES[dest_tf])

\* The seconds of a day the bucket rule is checked on: the first and the
\* last second of every minute of the session, up to 15:59:00.
SessionSeconds ==
    {t \in {SessionOpen + 60 * k + s : k \in 0..((SessionClose - SessionOpen) \div 60),
                                      s \in {0, 59}} : t <= SessionClose}

\* C9: for every in-session second t and the timeframe m of the run, the
\* candle timestamp of t is 09:30:00 of the day of t plus
\* floor(elapsed minutes / m) * m minutes, t lies in [start, start + m
\* minutes), and the candle of a qualifying source row carries that start.
BucketStartIsFloor ==
    dest_tf # "" =>
        LET m == TIMEFRAMES[dest_tf]
        IN  /\ \A t \in SessionSeconds, d \in {1, 2} :
                  LET b == candle_ts([day |-> d, time |-> t], m)
                  IN  /\ b.day = d
                      /\ b.time = BucketStart(t, m)
                      /\ b.time <= t /\ t < b.time + m * 60
            /\ \A r \in src_rows : Qualifying(r) => CandlesOf(r, m) # {}

\* A row at 15:59:00 has been resampled to the hour: its candle starts at
\* 15:30:00.
LastHalfHourResampled ==
    /\ dest_tf = "1hr"
    /\ \E r \in src_rows : Qualifying(r) /\ r.time = SessionClose
    /\ \E c \in dest_rows : c.time = SessionClose - 29 * 60

\* C10: the candles of the destination are those of the qualifying rows
\* alone: a row counts if and only if its time of day is in
\* [09:30:00, 15:59:00] and its open, close, high and low are present.
OnlyQualifyingRowsCount ==
    dest_tf # "" =>
        /\ dest_rows =
              IF get_table_type(src_table) = "option"
              THEN OptionCandles({r \in src_rows : Qualifying(r)}, TIMEFRAMES[dest_tf])
              ELSE StockCandles({r \in src_rows : Qualifying(r)}, TIMEFRAMES[dest_tf])
        /\ \A r \in src_rows :
              Qualifying(r) <=> \E c \in dest_rows :
                                   /\ c.prefix = r.prefix /\ c.day = r.day
                                   /\ c.time <= r.time
                                   /\ r.time < c.time + TIMEFRAMES[dest_tf] * 60
                                   /\ r \in Where(src_rows)

\* A source holding a row at 15:59:00, a row at 16:00:00 and a row without
\* its open has been resampled into the one candle of the first of them.
CloseBoundaryResampled ==
    /\ dest_tf # ""
    /\ \E r \in src_rows : Qualifying(r) /\ r.time = SessionClose
    /\ \E r \in src_rows : r.time = SessionClose + 60
    /\ \E r \in src_rows : r.Open = Null
    /\ Cardinality(dest_rows) = 1


\* The high of a candle or row is no less, and its low no more, than its
\* open and its close.
BoundsHold(c) ==
    /\ c.High[1] >= c.Open[1] /\ c.High[1] >= c.Close[1]
    /\ c.Low[1] <= c.Open[1] /\ c.Low[1] <= c.Close[1]

\* The qualifying source rows aggregated into candle c.
RowsOfCandle(c) ==
    {q \in src_rows :
        /\ Qualifying(q)
        /\ q.prefix = c.prefix /\ q.day = c.day
        /\ BucketStart(q.time, TIMEFRAMES[dest_tf]) = c.time}

\* C11 as the specification states it: every candle has high >= open,
\* high >= close, low <= open and low <= close, whatever the source rows.
CandleBounds ==
    dest_tf # "" => \A c \in dest_rows : BoundsHold(c)

\* C11 as the code has it: a candle has high >= open, high >= close,
\* low <= open and low <= close when every source row of its group has.
WellFormedCandleBounds ==
    dest_tf # "" =>
        \A c \in dest_rows :
            (\A q \in RowsOfCandle(c) : BoundsHold(q)) => BoundsHold(c)

\* A candle made of two rows at different price levels, each with its high
\* and low around its open and close.
TwoLevelCandle ==
    /\ dest_tf # ""
    /\ \E c \in dest_rows :
          /\ \A q \in RowsOfCandle(c) : BoundsHold(q)
          /\ \E q, r \in RowsOfCandle(c) : q.High[1] < r.Open[1]


RECURSIVE SumNullAsZero(_)
\* The sum of the volumes of a set of rows, a NULL volume counted as 0.
SumNullAsZero(G) ==
    IF G = {} THEN 0
    ELSE LET r == CHOOSE x \in G : TRUE
         IN  (IF r.Volume = Null THEN 0 ELSE r.Volume[1]) + SumNullAsZero(G \ {r})

\* C19: the volume of every candle is the sum of the volumes of the
\* qualifying rows of its group, a NULL volume counted as 0; a group whose
\* volumes are all NULL has volume 0.
VolumeIsSumNullAsZero ==
    dest_tf # "" =>
        \A c \in dest_rows : c.Volume = Val(SumNullAsZero(RowsOfCandle(c)))


\* C12: within one day the bucket of a later row is not before the bucket
\* of an earlier row, rows of different days are never in the same bucket,
\* and the destination holds the candle of each row at its bucket.
BucketsMonotone ==
    dest_tf # "" =>
        \A r1, r2 \in src_rows :
            LET b1 == candle_ts(r1, TIMEFRAMES[dest_tf])
                b2 == candle_ts(r2, TIMEFRAMES[dest_tf])
            IN  /\ (r1.day = r2.day /\ r1.time <= r2.time)
                      => (b1.day = b2.day /\ b1.time <= b2.time)
                /\ r1.day # r2.day => b1 # b2
                /\ \E c \in dest_rows : c.day = r1.day /\ c.time = b1.time
                /\ r1.day # r2.day => Cardinality(dest_rows) = 2

\* A row at 15:59 of the first day and a row at 09:30 of the second have
\* been resampled to the hour into two candles.
CrossDayResampled ==
    /\ dest_tf = "1hr"
    /\ \E r1, r2 \in src_rows :
          /\ r1.day = 1 /\ r1.time = SessionClose
          /\ r2.day = 2 /\ r2.time = SessionOpen
    /\ Cardinality(dest_rows) = 2


\* ------------------------------------------- resample request properties
\* The positions of the result list that hold the last entry of their tag.
LastEntries ==
    {i \in 1..Len(api_response.results) :
        \A j \in (i + 1)..Len(api_response.results) :
            api_response.results[j].timeframe # api_response.results[i].timeframe}

\* The candles of the qualifying rows of a table for a timeframe tag.
CandlesFrom(d, source, tf_name) ==
    OptionCandles({r \in d[source].rows : Qualifying(r)}, TIMEFRAMES[tf_name])

\* The destinations a request has resampled with success hold exactly the
\* candles of the rows the source holds now.
SuccessMeansExactCandles ==
    \A i \in LastEntries :
        api_response.results[i].success =>
            schema_tables[api_response.results[i].table].rows
                = CandlesFrom(schema_tables, api_request.table,
                              api_response.results[i].timeframe)

\* A request repeats the request before it, both with success throughout
\* and no merge in between: the destinations hold after it what they held
\* before it.
RepeatLeavesDestinations ==
    (/\ api_request'.table = api_request.table
     /\ api_request'.timeframes = api_request.timeframes
     /\ api_request.table # ""
     /\ api_response.code = 200 /\ api_response' = api_response
     /\ \A i \in 1..Len(api_response.results) : api_response.results[i].success)
        => \A i \in 1..Len(api_response.results) :
              schema_tables'[api_response.results[i].table]
                  = schema_tables[api_response.results[i].table]

\* C13: after a successful resample of a timeframe the destination holds
\* exactly the candles of the current source rows, whatever it held before,
\* and resampling the unchanged source again leaves it as it is.
DestinationReplaced ==
    [](SuccessMeansExactCandles) /\ [][RepeatLeavesDestinations]_vars

\* A successful resample of the 1-minute call table has replaced the rows a
\* destination held by the candle of the rows the source holds now.
StaleDestinationReplaced ==
    /\ api_response.code = 200
    /\ api_request.table = Join(CallSource)
    /\ \E i \in LastEntries :
          /\ api_response.results[i].success
          /\ api_response.results[i].table \in api_request.replaced
          /\ schema_tables[api_response.results[i].table].rows # {}

\* C14: a request answered 200 has one entry per requested tag, in order,
\* and the entry of a tag outside TIMEFRAMES is a failed one.
EveryTagAnswered ==
    api_response.code = 200 =>
        /\ Len(api_response.results) = Len(api_request.timeframes)
        /\ \A i \in 1..Len(api_response.results) :
              /\ api_response.results[i].timeframe = api_request.timeframes[i]
              /\ api_request.timeframes[i] \notin DOMAIN TIMEFRAMES
                    => ~api_response.results[i].success

\* C15: a request with all its fields is never aborted as a whole: it is
\* answered 200, and every supported tag it names has an entry, failed or
\* not.
NoRequestAborted ==
    (api_request # NoRequest /\ api_response.code # 400) =>
        /\ api_response.code = 200
        /\ \A i \in 1..Len(api_request.timeframes) :
              api_request.timeframes[i] \in DOMAIN TIMEFRAMES =>
                  \E j \in 1..Len(api_response.results) :
                      api_response.results[j].timeframe = api_request.timeframes[i]

\* C20: a resample request leaves the existing table it names as its source
\* as it was: no destination it derives is the source itself.
SourceUntouched ==
    [][(/\ api_request' # NoRequest
        /\ api_request'.table \in ApiTables
        /\ schema_tables[api_request'.table].exists)
          => schema_tables'[api_request'.table] = schema_tables[api_request'.table]]_vars


\* --------------------------------------------- merge request properties
\* The step is client p's request being rejected by validation.
Rejected(p) ==
    /\ pc[p] \in {"idle", "done"}
    /\ pc'[p] = "done"
    /\ response'[p].code = 400
    /\ \A q \in Procs \ {p} : pc'[q] = pc[q]

\* C16: a merge request rejected by validation changes nothing in the
\* store: no table is created and no row is inserted.
RejectedChangesNothing ==
    [][(\E p \in Procs : Rejected(p)) => tables' = tables]_vars

\* A batch with a key cell that spells no value.
HasMalformedKey(t, rows) ==
    \E i \in 1..Len(rows) :
        \/ rows[i].Timestamp = <<Malformed>>
        \/ t \notin StockTables /\ rows[i].ExpiryDate = <<Malformed>>
        \/ t \notin StockTables /\ rows[i].StrikePrice = PyStr(<<Malformed>>)

\* No merge of a batch with a malformed key cell is answered with success.
MalformedNeverMerged ==
    last_merge # NoMerge => ~HasMalformedKey(last_merge.table, last_merge.rows)

\* While a client holds a batch with a malformed key cell, the rows of the
\* tables stay as they are.
MalformedLeavesTables ==
    (\E p \in Procs : pc[p] \in {"validated", "classified"}
                      /\ HasMalformedKey(table[p], csv_rows[p]))
        => \A t \in BASE_TABLES : tables'[t].rows = tables[t].rows

Destination(q) == IF pc[q] \in {"validated", "classified"} THEN table[q] ELSE table'[q]

\* A step of a client whose destination is not the one of a merge in
\* progress leaves that merge's table and its classification as they are.
OtherDestinationStep ==
    \A p, q \in Procs :
        (/\ p # q
         /\ pc[p] \in {"validated", "classified"}
         /\ pc'[p] = pc[p]
         /\ Destination(q) # table[p])
            => /\ tables'[table[p]] = tables[table[p]]
               /\ existing_keys'[p] = existing_keys[p]
               /\ new_data'[p] = new_data[p]
               /\ skipped_rows'[p] = skipped_rows[p]

\* C18: two merges into different destinations do not affect each other's
\* classification, while two merges into the same destination can both
\* classify a row of one identity key as new (RaceOnOneKey is reachable).
DifferentDestinationsIndependent == [][OtherDestinationStep]_vars

\* Both clients have read the keys of the same table before either has
\* appended, and both hold a row of the same identity key as new.
RaceOnOneKey ==
    /\ pc[1] = "classified" /\ pc[2] = "classified"
    /\ table[1] = table[2]
    /\ \E i \in 1..Len(new_data[1]), j \in 1..Len(new_data[2]) :
          CsvKey(table[1], new_data[1][i]) = CsvKey(table[2], new_data[2][j])

====
